---- MODULE Spec2Model ----
(***************************************************************************)
(* Model of personal_assistant.py: the validated fields (Name, Phone,      *)
(* Birthday), Record, AddressBook, the command handlers wrapped by         *)
(* input_error, the pickle snapshot and the command loop of main().        *)
(*                                                                         *)
(* Python objects are records of their attributes.  A text is a TLA+       *)
(* string; Chars(s) gives its characters, which is what len(), isdigit()   *)
(* and strptime() read.  A call that can raise returns a record whose exc  *)
(* field names the exception ("" when the call returns), together with the *)
(* object as the call left it: Python mutates in place, so what was done   *)
(* before a raise stays done.                                              *)
(***************************************************************************)
EXTENDS Integers, Sequences, FiniteSets, TLC

VARIABLES
    pc,      \* "start" (no process), "running", "stopped", "crashed", "api"
    book,    \* AddressBook.data: the insertion-ordered dict, a sequence of [key, rec]
    file,    \* addressbook.pkl: [exists, data]
    last,    \* the last input line or call, and what it gave: [op, args, exc, msg, names]
    now,     \* the last value datetime.now() returned
    ncmds    \* input lines read, or calls made, so far

vars == <<pc, book, file, last, now, ncmds>>

----------------------------------------------------------------------------
\* Bounds of the model.

MaxPhones == 2      \* longest phone list a record grows to
MaxCmds == 4        \* input lines read over all sessions of one behaviour
MaxCalls == 4       \* calls made by the harness of the core operations

----------------------------------------------------------------------------
\* Texts.

Digits == {"0", "1", "2", "3", "4", "5", "6", "7", "8", "9"}

DigitVal(c) ==
    CASE c = "0" -> 0 [] c = "1" -> 1 [] c = "2" -> 2 [] c = "3" -> 3
      [] c = "4" -> 4 [] c = "5" -> 5 [] c = "6" -> 6 [] c = "7" -> 7
      [] c = "8" -> 8 [] c = "9" -> 9

\* The characters of each text the model feeds to the program.
Chars(s) ==
    CASE s = "1234567890"  -> <<"1","2","3","4","5","6","7","8","9","0">>
      [] s = "0987654321"  -> <<"0","9","8","7","6","5","4","3","2","1">>
      [] s = "12345"       -> <<"1","2","3","4","5">>
      [] s = "12345abcde"  -> <<"1","2","3","4","5","a","b","c","d","e">>
      [] s = "12345678901" -> <<"1","2","3","4","5","6","7","8","9","0","1">>
      [] s = "24.08.1991"  -> <<"2","4",".","0","8",".","1","9","9","1">>
      [] s = "27.08.1985"  -> <<"2","7",".","0","8",".","1","9","8","5">>
      [] s = "28.08.1985"  -> <<"2","8",".","0","8",".","1","9","8","5">>
      [] s = "2.1.1990"    -> <<"2",".","1",".","1","9","9","0">>
      [] s = "29.02.2000"  -> <<"2","9",".","0","2",".","2","0","0","0">>
      [] s = "31.02.1990"  -> <<"3","1",".","0","2",".","1","9","9","0">>
      [] s = "1991-08-24"  -> <<"1","9","9","1","-","0","8","-","2","4">>
      [] s = "24.08.91"    -> <<"2","4",".","0","8",".","9","1">>
      [] s = "Bob"         -> <<"B","o","b">>
      [] s = "Al"          -> <<"A","l">>
      [] s = ""            -> <<>>

\* str.isdigit(): non-empty and every character a digit.
isdigit(s) ==
    LET cs == Chars(s) IN Len(cs) > 0 /\ \A i \in 1..Len(cs) : cs[i] \in Digits

\* int() of a sequence of digit characters.
RECURSIVE IntOf(_)
IntOf(cs) ==
    IF cs = <<>> THEN 0
    ELSE 10 * IntOf(SubSeq(cs, 1, Len(cs) - 1)) + DigitVal(cs[Len(cs)])

----------------------------------------------------------------------------
\* Calendar dates (datetime.date / datetime.datetime).

NoDate == [y |-> 0, m |-> 0, d |-> 0]

IsLeap(y) == y % 4 = 0 /\ (y % 100 # 0 \/ y % 400 = 0)

DaysInMonth(y, m) ==
    CASE m \in {1, 3, 5, 7, 8, 10, 12} -> 31
      [] m \in {4, 6, 9, 11} -> 30
      [] m = 2 -> IF IsLeap(y) THEN 29 ELSE 28

\* The date(y, m, d) constructor accepts exactly these.
ValidDate(y, m, d) ==
    /\ y \in 1..9999
    /\ m \in 1..12
    /\ d >= 1
    /\ d <= DaysInMonth(y, m)

RECURSIVE DaysBeforeMonth(_, _)
DaysBeforeMonth(y, m) ==
    IF m = 1 THEN 0 ELSE DaysBeforeMonth(y, m - 1) + DaysInMonth(y, m - 1)

DaysBeforeYear(y) ==
    (y - 1) * 365 + ((y - 1) \div 4) - ((y - 1) \div 100) + ((y - 1) \div 400)

toordinal(dt) == DaysBeforeYear(dt.y) + DaysBeforeMonth(dt.y, dt.m) + dt.d

\* date.fromordinal, for an ordinal that falls in year y or in year y + 1.
fromordinal(n, y) ==
    LET yy  == IF n > DaysBeforeYear(y + 1) THEN y + 1 ELSE y
        doy == n - DaysBeforeYear(yy)
        mm  == CHOOSE m \in 1..12 :
                  /\ DaysBeforeMonth(yy, m) < doy
                  /\ doy <= DaysBeforeMonth(yy, m) + DaysInMonth(yy, m)
    IN  [y |-> yy, m |-> mm, d |-> doy - DaysBeforeMonth(yy, mm)]

\* A datetime is a date with tod, the seconds since midnight.
\* datetime + timedelta(days=n).
PlusDays(t, n) ==
    LET dt == fromordinal(toordinal(t) + n, t.y)
    IN  [y |-> dt.y, m |-> dt.m, d |-> dt.d, tod |-> t.tod]

\* datetime.combine(date, datetime.min.time())
AtMidnight(dt) == [y |-> dt.y, m |-> dt.m, d |-> dt.d, tod |-> 0]

\* datetime comparison: field by field, year first.
DtLess(a, b) ==
    \/ a.y < b.y
    \/ a.y = b.y /\ a.m < b.m
    \/ a.y = b.y /\ a.m = b.m /\ a.d < b.d
    \/ a.y = b.y /\ a.m = b.m /\ a.d = b.d /\ a.tod < b.tod

DtLeq(a, b) == DtLess(a, b) \/ a = b

\* datetime.strptime(value, "%d.%m.%Y").date(): [exc, date].
\* %d is 3[0-1]|[1-2]\d|0[1-9]|[1-9]| [1-9], %m is 1[0-2]|0[1-9]|[1-9],
\* %Y is \d\d\d\d; the whole text must be consumed, and the fields must
\* make a date.
MatchesDay(p) ==
    \/ Len(p) = 2 /\ p[1] = "3" /\ p[2] \in {"0", "1"}
    \/ Len(p) = 2 /\ p[1] \in {"1", "2"} /\ p[2] \in Digits
    \/ Len(p) = 2 /\ p[1] \in {"0", " "} /\ p[2] \in Digits \ {"0"}
    \/ Len(p) = 1 /\ p[1] \in Digits \ {"0"}

MatchesMonth(p) ==
    \/ Len(p) = 2 /\ p[1] = "1" /\ p[2] \in {"0", "1", "2"}
    \/ Len(p) = 2 /\ p[1] = "0" /\ p[2] \in Digits \ {"0"}
    \/ Len(p) = 1 /\ p[1] \in Digits \ {"0"}

MatchesYear(p) == Len(p) = 4 /\ \A i \in 1..4 : p[i] \in Digits

DayDigits(p) == IF p[1] = " " THEN <<p[2]>> ELSE p

strptime(value) ==
    LET cs   == Chars(value)
        dots == {i \in 1..Len(cs) : cs[i] = "."}
    IN  IF Cardinality(dots) # 2
        THEN [exc |-> "ValueError", date |-> NoDate]
        ELSE
          LET i1 == CHOOSE i \in dots : \A j \in dots : i <= j
              i2 == CHOOSE i \in dots : \A j \in dots : i >= j
              p1 == SubSeq(cs, 1, i1 - 1)
              p2 == SubSeq(cs, i1 + 1, i2 - 1)
              p3 == SubSeq(cs, i2 + 1, Len(cs))
          IN  IF ~(MatchesDay(p1) /\ MatchesMonth(p2) /\ MatchesYear(p3))
              THEN [exc |-> "ValueError", date |-> NoDate]
              ELSE
                LET y == IntOf(p3)
                    m == IntOf(p2)
                    d == IntOf(DayDigits(p1))
                IN  IF ValidDate(y, m, d)
                    THEN [exc |-> "", date |-> [y |-> y, m |-> m, d |-> d]]
                    ELSE [exc |-> "ValueError", date |-> NoDate]

----------------------------------------------------------------------------
\* Validated fields.

\* Name.__init__: "if not value: raise ValueError".
Name(value) ==
    IF value = ""
    THEN [exc |-> "ValueError", value |-> ""]
    ELSE [exc |-> "", value |-> value]

\* A list element: a Phone object (cls "Phone") or a bare str (cls "str").
Str(value) == [cls |-> "str", value |-> value]

\* The Phone.value setter: exactly 10 characters, all digits.
PhoneValueOk(value) == Len(Chars(value)) = 10 /\ isdigit(value)

\* Phone.__init__: Field.__init__ assigns self.value, which runs the
\* property setter; the setter raises ValueError on an invalid value.
Phone(value) ==
    IF PhoneValueOk(value)
    THEN [exc |-> "", obj |-> [cls |-> "Phone", value |-> value]]
    ELSE [exc |-> "ValueError", obj |-> Str("")]

None == [cls |-> "NoneType", init |-> FALSE, date |-> NoDate, value |-> ""]

\* Birthday.__init__: strptime's ValueError is swallowed, and then neither
\* self.date nor self.value is set (init is FALSE: the attributes are absent).
Birthday(value) ==
    LET p == strptime(value)
    IN  IF p.exc = ""
        THEN [cls |-> "Birthday", init |-> TRUE, date |-> p.date, value |-> value]
        ELSE [cls |-> "Birthday", init |-> FALSE, date |-> NoDate, value |-> ""]

----------------------------------------------------------------------------
\* Record.

NoRecord == [name |-> "", phones |-> <<>>, birthday |-> None]

\* Record.__init__
Record(name) ==
    LET n == Name(name)
    IN  IF n.exc # ""
        THEN [exc |-> n.exc, rec |-> NoRecord]
        ELSE [exc |-> "", rec |-> [name |-> n.value, phones |-> <<>>, birthday |-> None]]

\* Record.add_phone
add_phone(rec, phone) ==
    LET p == Phone(phone)
    IN  IF p.exc # ""
        THEN [exc |-> p.exc, rec |-> rec]
        ELSE [exc |-> "", rec |-> [rec EXCEPT !.phones = Append(@, p.obj)]]

\* e == x for a stored list element e and an object x made in the call:
\* Phone defines no __eq__, so a Phone compares by identity, and x is no
\* stored object; two str compare by value.
PyEq(e, x) == e.cls = "str" /\ x.cls = "str" /\ e.value = x.value

\* list.remove(x): deletes the first element equal to x, ValueError if none.
list_remove(list, x) ==
    LET hits == {i \in 1..Len(list) : PyEq(list[i], x)}
    IN  IF hits = {}
        THEN [exc |-> "ValueError", list |-> list]
        ELSE LET i == CHOOSE h \in hits : \A k \in hits : h <= k
             IN  [exc |-> "",
                  list |-> SubSeq(list, 1, i - 1) \o SubSeq(list, i + 1, Len(list))]

\* Record.delete_phone
delete_phone(rec, phone) ==
    LET p == Phone(phone)
    IN  IF p.exc # ""
        THEN [exc |-> p.exc, rec |-> rec]
        ELSE LET r == list_remove(rec.phones, p.obj)
             IN  [exc |-> r.exc, rec |-> [rec EXCEPT !.phones = r.list]]

\* Reading .value of a list element: a str has no such attribute.
ValueAttr(e) ==
    IF e.cls = "Phone"
    THEN [exc |-> "", value |-> e.value]
    ELSE [exc |-> "AttributeError", value |-> ""]

\* Record.edit_phone: the break stands in the loop body, not under the if,
\* so the loop ends after index 0 whatever the comparison gave.
edit_phone(rec, old_phone, new_phone) ==
    IF Len(rec.phones) = 0
    THEN [exc |-> "", rec |-> rec]
    ELSE
      LET v == ValueAttr(rec.phones[1])
      IN  IF v.exc # "" THEN [exc |-> v.exc, rec |-> rec]
          ELSE IF v.value # old_phone THEN [exc |-> "", rec |-> rec]
          ELSE LET p == Phone(new_phone)
               IN  IF p.exc # ""
                   THEN [exc |-> p.exc, rec |-> rec]
                   ELSE [exc |-> "", rec |-> [rec EXCEPT !.phones[1] = p.obj]]

\* Record.find_phone: [exc, found, value]
RECURSIVE find_phone_from(_, _, _)
find_phone_from(phones, i, phone) ==
    IF i > Len(phones) THEN [exc |-> "", found |-> FALSE, value |-> ""]
    ELSE LET v == ValueAttr(phones[i])
         IN  IF v.exc # "" THEN [exc |-> v.exc, found |-> FALSE, value |-> ""]
             ELSE IF v.value = phone THEN [exc |-> "", found |-> TRUE, value |-> v.value]
             ELSE find_phone_from(phones, i + 1, phone)

find_phone(rec, phone) == find_phone_from(rec.phones, 1, phone)

\* Record.add_birthday
record_add_birthday(rec, birthday) == [rec EXCEPT !.birthday = Birthday(birthday)]

----------------------------------------------------------------------------
\* AddressBook (a UserDict: data is a dict, which keeps insertion order).

Keys(data) == {data[i].key : i \in 1..Len(data)}

\* "name in book"
Contains(data, name) == name \in Keys(data)

IndexOf(data, name) == CHOOSE i \in 1..Len(data) : data[i].key = name

\* "book[name]" for a key that is present
GetItem(data, name) == data[IndexOf(data, name)].rec

\* "self.data[key] = value": replaces the value of a present key in place,
\* appends a new key.
SetItem(data, key, value) ==
    IF Contains(data, key)
    THEN [data EXCEPT ![IndexOf(data, key)].rec = value]
    ELSE Append(data, [key |-> key, rec |-> value])

\* add_record as it would be if it put every record at the end of the
\* mapping, a present key included (used to test C8).
add_record_appends(data, record) ==
    Append(data, [key |-> record.name, rec |-> record])

\* AddressBook.add_record
add_record(data, record) == SetItem(data, record.name, record)

\* AddressBook.delete
delete(data, name) ==
    IF Contains(data, name)
    THEN LET i == IndexOf(data, name)
         IN  SubSeq(data, 1, i - 1) \o SubSeq(data, i + 1, Len(data))
    ELSE data

\* AddressBook.find: [found, rec]; found FALSE stands for None
find(data, name) ==
    IF Contains(data, name)
    THEN [found |-> TRUE, rec |-> GetItem(data, name)]
    ELSE [found |-> FALSE, rec |-> NoRecord]

\* AddressBook.get_upcoming_birthdays with today == datetime.now():
\* [exc, list], list the names of the contacts appended, in dict order.
\* "contact.birthday and contact.birthday.date": None is falsy, a Birthday
\* object is truthy and reading .date of one left without it raises.
\* replace(year=...) raises ValueError when the date does not exist.
RECURSIVE upcoming_from(_, _, _, _, _)
upcoming_from(data, i, today, next_week, acc) ==
    IF i > Len(data) THEN [exc |-> "", list |-> acc]
    ELSE
      LET contact == data[i].rec
          b       == contact.birthday
      IN  IF b.cls = "NoneType" THEN upcoming_from(data, i + 1, today, next_week, acc)
          ELSE IF ~b.init THEN [exc |-> "AttributeError", list |-> acc]
          ELSE
            LET parsed == strptime(b.value).date
            IN  IF ~ValidDate(today.y, parsed.m, parsed.d)
                THEN [exc |-> "ValueError", list |-> acc]
                ELSE
                  LET contact_birthday ==
                          [AtMidnight(parsed) EXCEPT !.y = today.y]
                  IN  IF DtLeq(today, contact_birthday)
                         /\ DtLeq(contact_birthday, next_week)
                      THEN upcoming_from(data, i + 1, today, next_week,
                                         Append(acc, contact.name))
                      ELSE IF DtLess(next_week, today)
                              /\ contact_birthday.y = today.y + 1
                      THEN upcoming_from(data, i + 1, today, next_week,
                                         Append(acc, contact.name))
                      ELSE upcoming_from(data, i + 1, today, next_week, acc)

get_upcoming_birthdays(data, today) ==
    upcoming_from(data, 1, today, PlusDays(today, 7), <<>>)

----------------------------------------------------------------------------
\* Command handlers.  A handler gives [exc, msg, names, data]: the exception
\* that leaves it ("" when it returns), the message it returns, the contacts
\* the message lists, and the book's data as the handler left it.

ErrorMsg == "Give me name and phone please."

Returns(msg, names, data) == [exc |-> "", msg |-> msg, names |-> names, data |-> data]

Raises(exc, data) == [exc |-> exc, msg |-> "", names |-> <<>>, data |-> data]

\* The record stored under a present key, mutated in place.
Mutate(data, name, rec) == [data EXCEPT ![IndexOf(data, name)].rec = rec]

\* input_error: ValueError, IndexError and KeyError become the fixed
\* message; any other exception passes through.
input_error(h) ==
    IF h.exc \in {"ValueError", "IndexError", "KeyError"}
    THEN Returns(ErrorMsg, <<>>, h.data)
    ELSE h

\* add_contact as it would be if the new record were put into the book
\* before its phone is added (used to test C10).
add_contact_record_first(args, data) ==
    input_error(
      IF Len(args) # 2 THEN Raises("ValueError", data)
      ELSE
        LET name  == args[1]
            phone == args[2]
        IN  IF Contains(data, name)
            THEN LET r == add_phone(GetItem(data, name), phone)
                 IN  IF r.exc # "" THEN Raises(r.exc, data)
                     ELSE Returns("Contact updated.", <<name>>,
                                  Mutate(data, name, r.rec))
            ELSE LET c == Record(name)
                     r == add_phone(c.rec, phone)
                 IN  IF c.exc # "" THEN Raises(c.exc, data)
                     ELSE IF r.exc # "" THEN Raises(r.exc, add_record(data, c.rec))
                     ELSE Returns("Contact added.", <<name>>,
                                  add_record(data, r.rec)))

\* add_contact: the phone is validated (add_phone) before the new record
\* is put into the book.
add_contact(args, data) ==
    input_error(
      IF Len(args) # 2 THEN Raises("ValueError", data)
      ELSE
        LET name  == args[1]
            phone == args[2]
        IN  IF Contains(data, name)
            THEN LET r == add_phone(GetItem(data, name), phone)
                 IN  IF r.exc # "" THEN Raises(r.exc, data)
                     ELSE Returns("Contact updated.", <<name>>,
                                  Mutate(data, name, r.rec))
            ELSE LET c == Record(name)
                     r == add_phone(c.rec, phone)
                 IN  IF c.exc # "" THEN Raises(c.exc, data)
                     ELSE IF r.exc # "" THEN Raises(r.exc, data)
                     ELSE Returns("Contact added.", <<name>>,
                                  add_record(data, r.rec)))

\* change_contact: the phone list becomes [new_phone], the bare argument.
change_contact(args, data) ==
    input_error(
      IF Len(args) # 2 THEN Raises("ValueError", data)
      ELSE
        LET name      == args[1]
            new_phone == args[2]
        IN  IF Contains(data, name)
            THEN Returns("Contact updated.", <<name>>,
                         Mutate(data, name,
                                [GetItem(data, name) EXCEPT
                                   !.phones = <<Str(new_phone)>>]))
            ELSE Returns("Contact with name {name} not found.", <<name>>, data))

\* show_phone: ', '.join(phones) raises TypeError on an element that is
\* not a str.
show_phone(args, data) ==
    input_error(
      IF Len(args) = 0 THEN Raises("IndexError", data)
      ELSE
        LET name == args[1]
        IN  IF Contains(data, name)
            THEN LET phones == GetItem(data, name).phones
                 IN  IF \E i \in 1..Len(phones) : phones[i].cls # "str"
                     THEN Raises("TypeError", data)
                     ELSE Returns("Phone number for {name}: {phones}", <<name>>, data)
            ELSE Returns("Contact with name {name} not found.", <<name>>, data))

\* show_all
show_all(args, data) ==
    input_error(
      IF Len(data) > 0
      THEN Returns("All contacts:", [i \in 1..Len(data) |-> data[i].key], data)
      ELSE Returns("No contacts saved.", <<>>, data))

\* add_birthday
add_birthday(args, data) ==
    input_error(
      IF Len(args) # 2 THEN Raises("ValueError", data)
      ELSE
        LET name     == args[1]
            birthday == args[2]
            contact  == find(data, name)
        IN  IF contact.found
            THEN Returns("Birthday added for {name}", <<name>>,
                         Mutate(data, name,
                                record_add_birthday(contact.rec, birthday)))
            ELSE LET c == Record(name)
                 IN  IF c.exc # "" THEN Raises(c.exc, data)
                     ELSE Returns("New contact {name} created with birthday {birthday}",
                                  <<name>>,
                                  add_record(data,
                                             record_add_birthday(c.rec, birthday))))

\* show_birthday: contact.birthday.value is read whatever the birthday is.
show_birthday(args, data) ==
    input_error(
      IF Len(args) = 0 THEN Raises("ValueError", data)
      ELSE
        LET name    == args[1]
            contact == find(data, name)
        IN  IF contact.found
            THEN IF contact.rec.birthday.init
                 THEN Returns("{name}'s birthday is on {birthday}", <<name>>, data)
                 ELSE Raises("AttributeError", data)
            ELSE Returns("No contact found with name {name}", <<name>>, data))

\* birthdays: returns None when the list is empty.
birthdays(args, data, today) ==
    input_error(
      LET u == get_upcoming_birthdays(data, today)
      IN  IF u.exc # "" THEN Raises(u.exc, data)
          ELSE IF Len(u.list) > 0 THEN Returns("Upcoming birthdays:", u.list, data)
          ELSE Returns("None", <<>>, data))

----------------------------------------------------------------------------
\* Persistence.  pickle writes every object's class and attributes and
\* restores them without running __init__, so the file holds the book's
\* data as it is, a Birthday left without attributes included.

NoFile == [exists |-> FALSE, data |-> <<>>]

\* save_data
save_data(data) == [exists |-> TRUE, data |-> data]

\* load_data as it would be if it never read the file (used to test C9).
load_data_forgets(f) == <<>>

\* load_data: FileNotFoundError gives an empty AddressBook.
load_data(f) == IF f.exists THEN f.data ELSE <<>>

----------------------------------------------------------------------------
\* The command loop of main().

\* str.lower() of the command words fed to the loop.
lower(s) == CASE s = "ADD" -> "add" [] OTHER -> s

\* parse_input on a line given as user_input.split(): "cmd, *args = ..."
\* raises ValueError on a line without a word.
parse_input(line) ==
    IF Len(line) = 0
    THEN [exc |-> "ValueError", cmd |-> "", args |-> <<>>]
    ELSE [exc |-> "", cmd |-> lower(line[1]), args |-> Tail(line)]

NoNow == [y |-> 0, m |-> 0, d |-> 0, tod |-> 0]

NoLast == [op |-> "", args |-> <<>>, exc |-> "", msg |-> "", names |-> <<>>]

\* The phone list a line would extend has room (the bound of the model).
HasRoom(args) ==
    Len(args) = 2 /\ Contains(book, args[1])
        => Len(GetItem(book, args[1]).phones) < MaxPhones

\* input() hands the loop one more line.
Read == pc = "running" /\ ncmds < MaxCmds /\ ncmds' = ncmds + 1

\* A handler's message goes to send_message and the loop goes on; an
\* exception input_error lets through ends the process with a traceback.
Finish(op, args, h) ==
    /\ book' = h.data
    /\ last' = [op |-> op, args |-> args, exc |-> h.exc, msg |-> h.msg,
                names |-> h.names]
    /\ pc' = IF h.exc = "" THEN "running" ELSE "crashed"
    /\ file' = file

\* main() up to the loop: load_data, the welcome message.
Start ==
    /\ pc \in {"start", "stopped", "crashed"}
    /\ pc' = "running"
    /\ book' = load_data(file)
    /\ last' = [NoLast EXCEPT !.op = "start", !.msg = "Welcome to the assistant bot!"]
    /\ UNCHANGED <<file, now, ncmds>>

\* A line parse_input cannot unpack: the ValueError is raised in main itself.
BadLine(line) ==
    LET p == parse_input(line)
    IN  /\ Read
        /\ p.exc # ""
        /\ Finish("", <<>>, Raises(p.exc, book))
        /\ UNCHANGED now

CmdClose(line) ==
    LET p == parse_input(line)
    IN  /\ Read
        /\ p.exc = ""
        /\ p.cmd \in {"close", "exit"}
        /\ pc' = "stopped"
        /\ file' = save_data(book)
        /\ last' = [NoLast EXCEPT !.op = p.cmd, !.args = p.args, !.msg = "Good bye!"]
        /\ UNCHANGED <<book, now>>

CmdHello(line) ==
    LET p == parse_input(line)
    IN  /\ Read
        /\ p.exc = ""
        /\ p.cmd = "hello"
        /\ Finish(p.cmd, p.args, Returns("How can I help you?", <<>>, book))
        /\ UNCHANGED now

CmdAdd(line) ==
    LET p == parse_input(line)
    IN  /\ Read
        /\ p.exc = ""
        /\ p.cmd = "add"
        /\ HasRoom(p.args)
        /\ Finish(p.cmd, p.args, add_contact(p.args, book))
        /\ UNCHANGED now

CmdChange(line) ==
    LET p == parse_input(line)
    IN  /\ Read
        /\ p.exc = ""
        /\ p.cmd = "change"
        /\ Finish(p.cmd, p.args, change_contact(p.args, book))
        /\ UNCHANGED now

CmdPhone(line) ==
    LET p == parse_input(line)
    IN  /\ Read
        /\ p.exc = ""
        /\ p.cmd = "phone"
        /\ Finish(p.cmd, p.args, show_phone(p.args, book))
        /\ UNCHANGED now

CmdAll(line) ==
    LET p == parse_input(line)
    IN  /\ Read
        /\ p.exc = ""
        /\ p.cmd = "all"
        /\ Finish(p.cmd, p.args, show_all(p.args, book))
        /\ UNCHANGED now

CmdAddBirthday(line) ==
    LET p == parse_input(line)
    IN  /\ Read
        /\ p.exc = ""
        /\ p.cmd = "add-birthday"
        /\ Finish(p.cmd, p.args, add_birthday(p.args, book))
        /\ UNCHANGED now

CmdShowBirthday(line) ==
    LET p == parse_input(line)
    IN  /\ Read
        /\ p.exc = ""
        /\ p.cmd = "show-birthday"
        /\ Finish(p.cmd, p.args, show_birthday(p.args, book))
        /\ UNCHANGED now

CmdBirthdays(line, today) ==
    LET p == parse_input(line)
    IN  /\ Read
        /\ p.exc = ""
        /\ p.cmd = "birthdays"
        /\ now' = today
        /\ Finish(p.cmd, p.args, birthdays(p.args, book, today))

\* Any other word: no branch of the loop matches, nothing is sent.
Commands ==
    {"close", "exit", "hello", "add", "change", "phone", "all",
     "add-birthday", "show-birthday", "birthdays"}

CmdUnknown(line) ==
    LET p == parse_input(line)
    IN  /\ Read
        /\ p.exc = ""
        /\ p.cmd \notin Commands
        /\ Finish(p.cmd, p.args, Returns("", <<>>, book))
        /\ UNCHANGED now

----------------------------------------------------------------------------
\* The session specification: input lines typed into main().

Names == {"Bob", "Al"}

Lines ==
    {<<"add", n, p>> : n \in Names, p \in {"1234567890", "12345"}}
    \cup {<<"ADD", "Al", "0987654321">>, <<"add", "Bob">>}
    \cup {<<"change", n, p>> : n \in Names, p \in {"0987654321", "12345abcde"}}
    \cup {<<"change", "Bob">>}
    \cup {<<"phone", n>> : n \in Names} \cup {<<"phone">>}
    \cup {<<"all">>, <<"hello">>, <<"help">>, <<>>, <<"close">>, <<"exit">>}
    \cup {<<"add-birthday", n, b>> :
            n \in Names, b \in {"24.08.1991", "29.02.2000", "1991-08-24"}}
    \cup {<<"add-birthday", "Bob">>}
    \cup {<<"show-birthday", n>> : n \in Names} \cup {<<"show-birthday">>}
    \cup {<<"birthdays">>}

Clock ==
    {[y |-> 2024, m |-> 8, d |-> 20, tod |-> 36000],
     [y |-> 2023, m |-> 8, d |-> 20, tod |-> 36000]}

Init ==
    /\ pc = "start"
    /\ book = <<>>
    /\ file = NoFile
    /\ last = NoLast
    /\ now = NoNow
    /\ ncmds = 0

Next ==
    \/ Start
    \/ \E line \in Lines :
        \/ BadLine(line)
        \/ CmdClose(line)
        \/ CmdHello(line)
        \/ CmdAdd(line)
        \/ CmdChange(line)
        \/ CmdPhone(line)
        \/ CmdAll(line)
        \/ CmdAddBirthday(line)
        \/ CmdShowBirthday(line)
        \/ CmdUnknown(line)
        \/ \E today \in Clock : CmdBirthdays(line, today)

Spec == Init /\ [][Next]_vars

----------------------------------------------------------------------------
\* The birthday specification: the same loop, fed add-birthday and
\* birthdays lines only, with more dates and more readings of the clock.

BirthdayTexts ==
    {"24.08.1991", "27.08.1985", "28.08.1985", "2.1.1990", "29.02.2000",
     "31.02.1990", "24.08.91"}

BirthdayLines ==
    {<<"add-birthday", n, b>> : n \in Names, b \in BirthdayTexts}
    \cup {<<"birthdays">>}

BirthdayClock ==
    {[y |-> 2024, m |-> 8, d |-> 20, tod |-> 0],
     [y |-> 2024, m |-> 8, d |-> 20, tod |-> 36000],
     [y |-> 2024, m |-> 8, d |-> 24, tod |-> 0],
     [y |-> 2024, m |-> 8, d |-> 24, tod |-> 36000],
     [y |-> 2024, m |-> 12, d |-> 28, tod |-> 36000],
     [y |-> 2023, m |-> 8, d |-> 20, tod |-> 36000]}

NextBirthdays ==
    \/ Start
    \/ \E line \in BirthdayLines :
        \/ CmdAddBirthday(line)
        \/ \E today \in BirthdayClock : CmdBirthdays(line, today)

SpecBirthdays == Init /\ [][NextBirthdays]_vars

----------------------------------------------------------------------------
\* The core specification: a caller of Record and AddressBook, and of the
\* handlers that change the book, working on one book in memory.

\* One more call, within the bound of the model.
Call == pc = "api" /\ ncmds < MaxCalls /\ ncmds' = ncmds + 1

Result(op, args, exc, names, data) ==
    /\ book' = data
    /\ last' = [op |-> op, args |-> args, exc |-> exc, msg |-> "", names |-> names]
    /\ UNCHANGED <<pc, file, now>>

\* book.add_record(Record(name))
ApiAddRecord(name) ==
    LET c == Record(name)
    IN  /\ Call
        /\ Result("add_record", <<name>>, c.exc, <<>>,
                  IF c.exc = "" THEN add_record(book, c.rec) ELSE book)

\* book.delete(name)
ApiDelete(name) ==
    /\ Call
    /\ Result("delete", <<name>>, "", <<>>, delete(book, name))

\* book.find(name)
ApiFind(name) ==
    LET f == find(book, name)
    IN  /\ Call
        /\ Result("find", <<name>>, "",
                  IF f.found THEN <<f.rec.name>> ELSE <<>>, book)

\* book[name].add_phone(phone)
ApiAddPhone(name, phone) ==
    /\ Call
    /\ Contains(book, name)
    /\ Len(GetItem(book, name).phones) < MaxPhones
    /\ LET r == add_phone(GetItem(book, name), phone)
       IN  Result("add_phone", <<name, phone>>, r.exc, <<>>, Mutate(book, name, r.rec))

\* book[name].delete_phone(phone)
ApiDeletePhone(name, phone) ==
    /\ Call
    /\ Contains(book, name)
    /\ LET r == delete_phone(GetItem(book, name), phone)
       IN  Result("delete_phone", <<name, phone>>, r.exc, <<>>,
                  Mutate(book, name, r.rec))

\* book[name].edit_phone(old_phone, new_phone)
ApiEditPhone(name, old_phone, new_phone) ==
    /\ Call
    /\ Contains(book, name)
    /\ LET r == edit_phone(GetItem(book, name), old_phone, new_phone)
       IN  Result("edit_phone", <<name, old_phone, new_phone>>, r.exc, <<>>,
                  Mutate(book, name, r.rec))

\* book[name].find_phone(phone)
ApiFindPhone(name, phone) ==
    /\ Call
    /\ Contains(book, name)
    /\ LET r == find_phone(GetItem(book, name), phone)
       IN  Result("find_phone", <<name, phone>>, r.exc,
                  IF r.found THEN <<r.value>> ELSE <<>>, book)

\* book[name].add_birthday(birthday)
ApiAddBirthday(name, birthday) ==
    /\ Call
    /\ Contains(book, name)
    /\ Result("add_birthday", <<name, birthday>>, "", <<>>,
              Mutate(book, name, record_add_birthday(GetItem(book, name), birthday)))

\* A handler called on the book.
Handled(op, args, h) ==
    /\ book' = h.data
    /\ last' = [op |-> op, args |-> args, exc |-> h.exc, msg |-> h.msg,
                names |-> h.names]
    /\ UNCHANGED <<pc, file, now>>

ApiAddContact(args) ==
    /\ Call
    /\ HasRoom(args)
    /\ Handled("add", args, add_contact(args, book))

ApiChangeContact(args) ==
    /\ Call
    /\ Handled("change", args, change_contact(args, book))

ApiAddBirthdayCmd(args) ==
    /\ Call
    /\ Handled("add-birthday", args, add_birthday(args, book))

ApiPhones == {"1234567890", "0987654321", "12345"}

ApiBirthdays == {"24.08.1991", "1991-08-24"}

InitApi ==
    /\ pc = "api"
    /\ book = <<>>
    /\ file = NoFile
    /\ last = NoLast
    /\ now = NoNow
    /\ ncmds = 0

NextApi ==
    \/ \E name \in Names \cup {""} : ApiAddRecord(name)
    \/ \E name \in Names :
        \/ ApiDelete(name)
        \/ ApiFind(name)
        \/ \E phone \in ApiPhones :
            \/ ApiAddPhone(name, phone)
            \/ ApiDeletePhone(name, phone)
            \/ ApiFindPhone(name, phone)
            \/ \E new_phone \in ApiPhones : ApiEditPhone(name, phone, new_phone)
            \/ ApiAddContact(<<name, phone>>)
            \/ ApiChangeContact(<<name, phone>>)
        \/ \E birthday \in ApiBirthdays :
            \/ ApiAddBirthday(name, birthday)
            \/ ApiAddBirthdayCmd(<<name, birthday>>)

SpecApi == InitApi /\ [][NextApi]_vars

----------------------------------------------------------------------------
\* The claims.

\* This step read an input line (or made a call).
Stepped == ncmds' = ncmds + 1

\* The phones of the record stored under name.
PhonesOf(data, name) == GetItem(data, name).phones

\* Every element of the list is a Phone object.
AllPhoneObjects(list) == \A i \in 1..Len(list) : list[i].cls = "Phone"

\* The index of the first element whose value is phone (0 if none).
FirstWithValue(list, phone) ==
    LET hits == {i \in 1..Len(list) : list[i].value = phone}
    IN  IF hits = {} THEN 0 ELSE CHOOSE h \in hits : \A k \in hits : h <= k

InList(x, list) == \E i \in 1..Len(list) : list[i] = x

\* C1: no input line ends the process by an uncaught exception: the loop
\* is never left with a traceback.
C1_NoCommandIsFatal == pc # "crashed"

\* C2: every element of every record's phone list has a value of exactly
\* 10 characters, all of them decimal digits (the value part of the claim;
\* the claim also wants the element to be a Phone object).
C2_PhonesTenDigits ==
    \A i \in 1..Len(book) :
        \A j \in 1..Len(book[i].rec.phones) :
            LET cs == Chars(book[i].rec.phones[j].value)
            IN  Len(cs) = 10 /\ \A k \in 1..Len(cs) : cs[k] \in Digits

\* The birthdays command has answered with a list (not with a traceback,
\* not with the error message).
BirthdaysAnswered == last.op = "birthdays" /\ last.exc = "" /\ last.msg # ErrorMsg

\* The day number of month m, day d in the year of the reference date.
CandidateDay(m, d) == toordinal([y |-> now.y, m |-> m, d |-> d])

\* C3: a record with a valid birthday is listed by the birthdays query
\* exactly when its candidate date (the birthday in the reference year)
\* lies from the reference day to 7 days after it, both included, whatever
\* the time of day of the query.
C3_InclusiveWindow ==
    BirthdaysAnswered =>
        \A i \in 1..Len(book) :
            LET b == book[i].rec.birthday
            IN  b.init =>
                  (InList(book[i].rec.name, last.names)
                     <=> /\ toordinal(now) <= CandidateDay(b.date.m, b.date.d)
                         /\ CandidateDay(b.date.m, b.date.d) <= toordinal(now) + 7)

\* The day number of the next occurrence of month m, day d on or after the
\* reference day (0 when neither this year nor the next has such a day).
NextOccurrence(m, d) ==
    IF ValidDate(now.y, m, d) /\ CandidateDay(m, d) >= toordinal(now)
    THEN CandidateDay(m, d)
    ELSE IF ValidDate(now.y + 1, m, d)
    THEN toordinal([y |-> now.y + 1, m |-> m, d |-> d])
    ELSE 0

\* C4: a record whose birthday next occurs within 7 days after the
\* reference day is listed, also when that occurrence lies in the following
\* year.  (An occurrence on the reference day itself is the case of C3.)
C4_NextSevenDays ==
    BirthdaysAnswered =>
        \A i \in 1..Len(book) :
            LET b   == book[i].rec.birthday
                occ == NextOccurrence(b.date.m, b.date.d)
            IN  b.init /\ toordinal(now) < occ /\ occ <= toordinal(now) + 7
                    => InList(book[i].rec.name, last.names)

\* C5: delete_phone(phone) on a record of Phone objects one of which has
\* the value phone returns, and removes exactly the first such phone.
C5_DeletePhoneRemovesFirst ==
    [][(Stepped /\ last'.op = "delete_phone") =>
         LET name  == last'.args[1]
             phone == last'.args[2]
             old   == PhonesOf(book, name)
             k     == FirstWithValue(old, phone)
         IN  AllPhoneObjects(old) /\ k # 0 =>
               /\ last'.exc = ""
               /\ PhonesOf(book', name)
                    = SubSeq(old, 1, k - 1) \o SubSeq(old, k + 1, Len(old))]_vars

\* C6: edit_phone(old, new) with a valid new number, on a record of Phone
\* objects one of which has the value old, replaces the first such phone
\* by new wherever it stands and changes nothing else.
C6_EditPhoneScansAll ==
    [][(Stepped /\ last'.op = "edit_phone") =>
         LET name      == last'.args[1]
             old_phone == last'.args[2]
             new_phone == last'.args[3]
             old       == PhonesOf(book, name)
             k         == FirstWithValue(old, old_phone)
         IN  AllPhoneObjects(old) /\ PhoneValueOk(new_phone) /\ k # 0 =>
               /\ last'.exc = ""
               /\ PhonesOf(book', name)
                    = [old EXCEPT ![k] = [cls |-> "Phone", value |-> new_phone]]]_vars

\* C7: an add-birthday line whose date does not parse as DD.MM.YYYY is
\* answered with the error message and leaves the book as it was.
C7_BirthdayIsStrict ==
    [][(Stepped /\ last'.op = "add-birthday" /\ Len(last'.args) = 2
          /\ strptime(last'.args[2]).exc # "")
         => last'.msg = ErrorMsg /\ book' = book]_vars

\* C8: the keys of the book are unique, and every record is stored under
\* its own name.
C8_KeysUniqueAndNamed ==
    /\ \A i, j \in 1..Len(book) : book[i].key = book[j].key => i = j
    /\ \A i \in 1..Len(book) : book[i].key = book[i].rec.name

\* C8's case: add_record has put a record into a book that now holds two.
C8_Witness ==
    pc = "api" /\ last.op = "add_record" /\ last.exc = "" /\ Len(book) = 2

\* C9: a session starts with the book of the snapshot, or empty without
\* one; a session that follows a normal end starts with the book that
\* session ended with; close/exit writes the book as it is; and nothing
\* else writes the snapshot.
C9_Persistence ==
    [][/\ (pc # "running" /\ pc' = "running")
            => book' = IF file.exists THEN file.data ELSE <<>>
       /\ (pc = "stopped" /\ pc' = "running") => book' = book
       /\ (pc = "running" /\ pc' = "stopped")
            => file'.exists /\ file'.data = book
       /\ file' # file
            => pc = "running" /\ pc' = "stopped" /\ last'.op \in {"close", "exit"}]_vars

\* C9's case: a session has started from a snapshot that holds records.
C9_Witness ==
    pc = "running" /\ last.op = "start" /\ file.exists /\ Len(book) > 0

\* C10: a line answered with the error message leaves the book as it was.
C10_ErrorLeavesBookUnchanged ==
    [][(Stepped /\ last'.msg = ErrorMsg) => book' = book]_vars

\* C10's case: add with a new name and an invalid phone was answered with
\* the error message, in a book that holds another record.
C10_Witness ==
    /\ last.op = "add"
    /\ last.msg = ErrorMsg
    /\ Len(last.args) = 2
    /\ ~PhoneValueOk(last.args[2])
    /\ ~Contains(book, last.args[1])
    /\ Len(book) > 0

====
